---- MODULE Spec2Model ----
(***************************************************************************)
(* Items / products REST API of practice11.                                *)
(*                                                                         *)
(*   src/app.js            the items API (validated CRUD on "items")       *)
(*   src/unnamed/part_000  legacy products API, listens after connecting   *)
(*   src/unnamed/part_001  legacy products API, listens at module load     *)
(*                                                                         *)
(* Spec       is app.js:   one action per route handler, the whole handler *)
(*            (validation, the one persistence call, the response).        *)
(* SpecLegacy is the two legacy files, told apart by `variant`.            *)
(*                                                                         *)
(* A request is handled from the idle state (req = NoReq); the handler's   *)
(* action leaves the request and its response in req / res, and EndRequest *)
(* returns to idle.                                                        *)
(***************************************************************************)
EXTENDS Integers, Sequences, FiniteSets, TLC

VARIABLES
  items,      \* collection "items": a set of documents (field -> value)
  nextId,     \* how many ObjectIds the store has generated for "items"
  now,        \* the wall clock read by new Date()
  req,        \* the request being handled, NoReq when idle
  res,        \* the response sent for req
  dbCalls,    \* history: persistence calls issued while handling req
  before,     \* history: the items collection when req arrived
  threw,      \* history: the persistence call of req threw
  db,         \* TRUE once `db = client.db("shop")` has run
  listening,  \* TRUE once app.listen has run
  startPc,    \* startServer(): "none", "connecting", "listening", "failed"
  connectPc,  \* connectDB():   "none", "connecting", "connected", "failed"
  products,   \* collection "products" (legacy files)
  prodNextId, \* how many ObjectIds the store has generated for "products"
  variant     \* which program runs: "app.js", "part_000", "part_001"

vars == <<items, nextId, now, req, res, dbCalls, before, threw, db, listening,
          startPc, connectPc, products, prodNextId, variant>>

startVars  == <<db, listening, startPc, connectPc, variant>>
legacyVars == <<products, prodNextId>>
itemVars   == <<items, nextId, now>>

-----------------------------------------------------------------------------
(* Bounds *)

\* items the store will hold over a run (ObjectIds generated for "items")
MaxItems == 1
\* last millisecond of the clock
MaxClock == 1
\* products the store will hold over a run
MaxProducts == 2

-----------------------------------------------------------------------------
(* JavaScript / JSON values *)

Undef   == [kind |-> "undefined", str |-> "", num |-> 0]
Null    == [kind |-> "null",      str |-> "", num |-> 0]
Str(s)  == [kind |-> "string",    str |-> s,  num |-> 0]
Num(n)  == [kind |-> "number",    str |-> "", num |-> n]
\* JSON.parse("1e999")
Inf     == [kind |-> "Infinity",  str |-> "", num |-> 0]
NaN     == [kind |-> "NaN",       str |-> "", num |-> 0]
Date(t) == [kind |-> "date",      str |-> "", num |-> t]

\* typeof v
TypeOf(v) ==
  CASE v.kind \in {"number", "Infinity", "NaN"} -> "number"
    [] v.kind \in {"null", "date", "objectid"}  -> "object"
    [] OTHER                                    -> v.kind

\* Number.isNaN(v)
NumberIsNaN(v) == v.kind = "NaN"

\* v < 0 for a v whose typeof is "number"
LessThanZero(v) == v.kind = "number" /\ v.num < 0

\* a >= b as the store compares two values: numbers only with numbers, and NaN
\* only with NaN
NumGte(a, b) ==
  CASE a.kind = "NaN" \/ b.kind = "NaN" -> a.kind = b.kind
    [] TypeOf(a) # "number" \/ TypeOf(b) # "number" -> FALSE
    [] a.kind = "Infinity" -> TRUE
    [] b.kind = "Infinity" -> FALSE
    [] OTHER -> a.num >= b.num

\* !v
Falsy(v) ==
  \/ v.kind \in {"undefined", "null", "NaN"}
  \/ v = Str("")
  \/ v = Num(0)

\* v ?? d
Coalesce(v, d) == IF v.kind \in {"undefined", "null"} THEN d ELSE v

\* JSON.stringify of one value inside res.json: non-finite numbers become
\* null, an ObjectId its hex string; a Date becomes its ISO string, for which
\* the instant stands (toISOString is one-to-one and keeps the order)
ToJSON(v) ==
  CASE v.kind \in {"Infinity", "NaN"} -> Null
    [] v.kind = "objectid"            -> [kind |-> "string", str |-> v.str, num |-> 0]
    [] OTHER                          -> v

\* res.json(doc)
DocJSON(doc) == [k \in DOMAIN doc |-> ToJSON(doc[k])]

-----------------------------------------------------------------------------
(* ObjectId *)

\* ObjectId.prototype.toHexString for the n-th id the store generates
HexStrings ==
  << "65b0c0ffee00000000000001", "65b0c0ffee00000000000002",
     "65b0c0ffee00000000000003", "65b0c0ffee00000000000004" >>

ToHexString(n) == HexStrings[n]

OidVal(n) == [kind |-> "objectid", str |-> ToHexString(n), num |-> n]

\* ids the store generates for items
ItemOids == 1 .. MaxItems

\* path parameters: the well-formed hex strings and malformed ones
MalformedIds == {"65b0c0ffee0000000000000z"}
RawIds == {ToHexString(n) : n \in ItemOids} \cup MalformedIds

\* ObjectId.isValid(id)
ObjectIdIsValid(id) == \E n \in 1 .. Len(HexStrings) : HexStrings[n] = id

\* new ObjectId(id): the key, or 0 when the constructor throws
NewObjectId(id) ==
  IF ObjectIdIsValid(id)
    THEN CHOOSE n \in 1 .. Len(HexStrings) : HexStrings[n] = id
    ELSE 0

-----------------------------------------------------------------------------
(* Requests and responses *)

Keys == {"name", "price", "category", "description", "stock"}
\* Object.keys order of a body (the order its keys were sent in is not modelled)
KeyOrder == << "name", "price", "category", "description", "stock" >>

EmptyBody == [k \in Keys |-> Undef]

\* Object.keys(body), as a set
ObjectKeys(body) == {k \in Keys : body[k] # Undef}

NoQuery == [category |-> "", minPrice |-> "", sort |-> "", fields |-> ""]

NoReq == [method |-> "", path |-> "", id |-> "", body |-> EmptyBody, query |-> NoQuery]

Request(method, path, id, body, query) ==
  [method |-> method, path |-> path, id |-> id, body |-> body, query |-> query]

NoDoc == [k \in {} |-> Undef]

NoRes ==
  [sent |-> 0, status |-> 0, error |-> "", missing |-> << >>, invalid |-> << >>,
   message |-> "", id |-> Undef, count |-> -1, docs |-> << >>]

\* res.status(s).json({ error })
ErrorRes(s, e) == [NoRes EXCEPT !.sent = 1, !.status = s, !.error = e]

Idle == req = NoReq

-----------------------------------------------------------------------------
(* Request inputs *)

NameValues        == {Undef, Str(""), Str("Widget"), Num(5)}
\* what express.json() can put in a body: JSON has no NaN, and 1e999 parses to
\* Infinity
PriceValues       == {Undef, Null, Str("9.99"), Num(-1), Num(0), Inf}
CategoryValues    == {Undef, Str("tools"), Num(5)}
DescriptionValues == {Undef, Null, Str("handy")}
StockValues       == {Undef, Num(3)}

\* POST and PUT read only name, price, category and description of the body
FullBodies ==
  [name : NameValues, price : PriceValues, category : CategoryValues,
   description : DescriptionValues, stock : {Undef}]

\* PATCH bodies: every body over the four allowed keys, and bodies that carry
\* the unknown key `stock` beside absent, valid or invalid allowed keys
\* (validatePatchFields tests the key names before it reads any value)
PatchBodies ==
  [name : NameValues, price : PriceValues, category : CategoryValues,
   description : DescriptionValues, stock : {Undef}]
  \cup
  [name : {Undef, Str("Widget")}, price : {Undef, Num(-1), Num(0)},
   category : {Undef, Num(5)}, description : {Undef, Str("handy")},
   stock : StockValues \ {Undef}]

ListQuery == [category |-> "tools", minPrice |-> "10", sort |-> "price", fields |-> "name,price"]

-----------------------------------------------------------------------------
(* The store *)

\* new Date(): the clock may have advanced since it was last read
Dates(t) == {u \in t .. (t + 1) : u <= MaxClock}

\* collection.findOne({ _id })
FindOne(coll, oid) ==
  IF \E d \in coll : d["_id"] = OidVal(oid)
    THEN CHOOSE d \in coll : d["_id"] = OidVal(oid)
    ELSE NoDoc

\* collection.insertOne(doc) with the generated _id
InsertOne(coll, doc, oid) ==
  coll \cup {[k \in DOMAIN doc \cup {"_id"} |-> IF k = "_id" THEN OidVal(oid) ELSE doc[k]]}

\* an update that replaces the document instead of merging into it
SetFields_Replace(d, set) ==
  [k \in {"_id"} \cup DOMAIN set |-> IF k \in DOMAIN set THEN set[k] ELSE d[k]]

\* document d after { $set: set }
SetFields(d, set) ==
  [k \in DOMAIN d \cup DOMAIN set |-> IF k \in DOMAIN set THEN set[k] ELSE d[k]]

\* updateOne with { upsert: true }
UpdateOne_Upsert(coll, oid, set) ==
  LET d == FindOne(coll, oid) IN
  IF d = NoDoc
    THEN [matchedCount |-> 0, coll |-> InsertOne(coll, set, oid)]
    ELSE [matchedCount |-> 1, coll |-> (coll \ {d}) \cup {SetFields(d, set)}]

\* collection.updateOne({ _id }, { $set: set })
UpdateOne(coll, oid, set) ==
  LET d == FindOne(coll, oid) IN
  IF d = NoDoc
    THEN [matchedCount |-> 0, coll |-> coll]
    ELSE [matchedCount |-> 1, coll |-> (coll \ {d}) \cup {SetFields(d, set)}]

\* collection.deleteOne({ _id })
DeleteOne(coll, oid) ==
  LET d == FindOne(coll, oid) IN
  IF d = NoDoc
    THEN [deletedCount |-> 0, coll |-> coll]
    ELSE [deletedCount |-> 1, coll |-> coll \ {d}]

\* the documents of a set in _id order (the store's natural order)
RECURSIVE InIdOrder(_)
InIdOrder(coll) ==
  IF coll = {} THEN << >>
  ELSE LET d == CHOOSE x \in coll : \A y \in coll : x["_id"].num <= y["_id"].num
       IN << d >> \o InIdOrder(coll \ {d})

\* collection.find({}).toArray()
FindAll(coll) == InIdOrder(coll)

-----------------------------------------------------------------------------
(* app.js helpers *)

HandleServerError == ErrorRes(500, "Internal server error")

\* validateId without the isValid test
ValidateId_Accepting(id) == NoRes

\* validateId: the 400 it sends, or NoRes when it returns true
ValidateId(id) ==
  IF ~ObjectIdIsValid(id) THEN ErrorRes(400, "Invalid item id") ELSE NoRes

REQUIRED_FIELDS == << "name", "price", "category" >>

\* the missing test without the null case
IsMissing_NotNull(v) == v = Undef \/ v = Str("")

IsMissing(v) == v = Undef \/ v = Null \/ v = Str("")

\* the price test without the `price < 0` case
PriceInvalid_NegativeAllowed(v) == TypeOf(v) # "number" \/ NumberIsNaN(v)

\* typeof price !== "number" || Number.isNaN(price) || price < 0
PriceInvalid(v) == TypeOf(v) # "number" \/ NumberIsNaN(v) \/ LessThanZero(v)

\* validateRequiredFields: the 400 it sends, or NoRes when it returns true
ValidateRequiredFields(body) ==
  LET Test(f) == IsMissing(body[f])
      missing == SelectSeq(REQUIRED_FIELDS, Test)
  IN
  IF Len(missing) > 0
    THEN [ErrorRes(400, "Missing required fields") EXCEPT !.missing = missing]
  ELSE IF TypeOf(body["name"]) # "string"
    THEN ErrorRes(400, "Field 'name' must be a string")
  ELSE IF TypeOf(body["category"]) # "string"
    THEN ErrorRes(400, "Field 'category' must be a string")
  ELSE IF PriceInvalid(body["price"])
    THEN ErrorRes(400, "Field 'price' must be a non-negative number")
  ELSE NoRes

allowed == {"name", "price", "category", "description"}

\* validatePatchFields: the 400 it sends, or NoRes when it returns true
ValidatePatchFields(body) ==
  LET Test(k) == k \in ObjectKeys(body) /\ k \notin allowed
      invalid == SelectSeq(KeyOrder, Test)
  IN
  IF ObjectKeys(body) = {}
    THEN ErrorRes(400, "PATCH body cannot be empty")
  ELSE IF Len(invalid) > 0
    THEN [ErrorRes(400, "Invalid fields in PATCH") EXCEPT !.invalid = invalid]
  ELSE IF body["name"] # Undef /\ TypeOf(body["name"]) # "string"
    THEN ErrorRes(400, "Field 'name' must be a string")
  ELSE IF body["category"] # Undef /\ TypeOf(body["category"]) # "string"
    THEN ErrorRes(400, "Field 'category' must be a string")
  ELSE IF body["price"] # Undef /\ PriceInvalid(body["price"])
    THEN ErrorRes(400, "Field 'price' must be a non-negative number")
  ELSE IF body["description"] # Undef /\ TypeOf(body["description"]) # "string"
    THEN ErrorRes(400, "Field 'description' must be a string")
  ELSE NoRes

\* the first argument of validateRequiredFields in POST and PUT: { name, price, category }
Required(body) ==
  [k \in Keys |-> IF k \in {"name", "price", "category"} THEN body[k] ELSE Undef]

-----------------------------------------------------------------------------
(* app.js route handlers *)

\* a handler that answers before it reaches the store
Answer(r, response) ==
  /\ req' = r
  /\ res' = response
  /\ dbCalls' = 0
  /\ UNCHANGED <<itemVars, before, threw, startVars, legacyVars>>

\* a handler whose persistence call throws: db is unset (TypeError, no call
\* issued) or the call itself rejects; the catch block answers
Caught(r, issued) ==
  /\ req' = r
  /\ res' = HandleServerError
  /\ dbCalls' = issued
  /\ threw' = TRUE
  /\ UNCHANGED <<items, nextId, before, startVars, legacyVars>>

\* GET /api/items
GetItems ==
  /\ Idle /\ listening
  /\ \E q \in {NoQuery, ListQuery}, fails \in BOOLEAN :
       LET r == Request("GET", "/api/items", "", EmptyBody, q) IN
       IF ~db \/ fails
         THEN Caught(r, IF db THEN 1 ELSE 0) /\ UNCHANGED now
         ELSE LET found == FindAll(items) IN
              /\ req' = r
              /\ res' = [NoRes EXCEPT !.sent = 1, !.status = 200,
                                      !.count = Len(found),
                                      !.docs = [i \in 1 .. Len(found) |-> DocJSON(found[i])]]
              /\ dbCalls' = 1
              /\ UNCHANGED <<itemVars, before, threw, startVars, legacyVars>>

\* GET /api/items/:id once findOne has resolved
GetItemResponse(coll, oid) ==
  LET item == FindOne(coll, oid) IN
  IF item = NoDoc
    THEN ErrorRes(404, "Item not found")
    ELSE [NoRes EXCEPT !.sent = 1, !.status = 200, !.docs = << DocJSON(item) >>]

\* GET /api/items/:id
GetItem ==
  /\ Idle /\ listening
  /\ \E id \in RawIds :
       LET r == Request("GET", "/api/items/:id", id, EmptyBody, NoQuery) IN
       IF ValidateId(id).sent = 1 THEN Answer(r, ValidateId(id))
       ELSE \E fails \in BOOLEAN :
         IF ~db \/ NewObjectId(id) = 0
           THEN Caught(r, 0) /\ UNCHANGED now
         ELSE IF fails
           THEN Caught(r, 1) /\ UNCHANGED now
         ELSE /\ req' = r
              /\ res' = GetItemResponse(items, NewObjectId(id))
              /\ dbCalls' = 1
              /\ UNCHANGED <<itemVars, before, threw, startVars, legacyVars>>

\* POST /api/items
PostItem ==
  /\ Idle /\ listening
  /\ nextId < MaxItems
  /\ \E body \in FullBodies :
       LET r == Request("POST", "/api/items", "", body, NoQuery)
           v == ValidateRequiredFields(Required(body))
       IN
       IF v.sent = 1 THEN Answer(r, v)
       ELSE \E fails \in BOOLEAN :
         IF ~db THEN Caught(r, 0) /\ UNCHANGED now
         ELSE \E createdAt \in Dates(now) : \E updatedAt \in Dates(createdAt) :
           /\ now' = updatedAt
           /\ IF fails THEN Caught(r, 1)
              ELSE LET oid == nextId + 1
                       doc == [name        |-> body["name"],
                               price       |-> body["price"],
                               category    |-> body["category"],
                               description |-> Coalesce(body["description"], Str("")),
                               createdAt   |-> Date(createdAt),
                               updatedAt   |-> Date(updatedAt)]
                   IN
                   /\ items' = InsertOne(items, doc, oid)
                   /\ nextId' = oid
                   /\ req' = r
                   /\ res' = [NoRes EXCEPT !.sent = 1, !.status = 201,
                                           !.message = "Item created",
                                           !.id = ToJSON(Str(ToHexString(oid)))]
                   /\ dbCalls' = 1
                   /\ UNCHANGED <<before, threw, startVars, legacyVars>>

\* the update of PUT and PATCH once validation has passed: `set` is the $set
\* document without its updatedAt, which is read from the clock here
Update(r, id, set, done) ==
  \E fails \in BOOLEAN :
    IF ~db \/ NewObjectId(id) = 0 THEN Caught(r, 0) /\ UNCHANGED now
    ELSE \E updatedAt \in Dates(now) :
      /\ now' = updatedAt
      /\ IF fails THEN Caught(r, 1)
         ELSE LET oid    == NewObjectId(id)
                  stamped == [k \in DOMAIN set \cup {"updatedAt"} |->
                                IF k = "updatedAt" THEN Date(updatedAt) ELSE set[k]]
                  result == UpdateOne(items, oid, stamped)
              IN
              /\ items' = result.coll
              /\ req' = r
              /\ res' = IF result.matchedCount = 0
                          THEN ErrorRes(404, "Item not found")
                          ELSE [NoRes EXCEPT !.sent = 1, !.status = 200, !.message = done]
              /\ dbCalls' = 1
              /\ UNCHANGED <<nextId, before, threw, startVars, legacyVars>>

\* PUT /api/items/:id
PutItem ==
  /\ Idle /\ listening
  /\ \E id \in RawIds, body \in FullBodies :
       LET r == Request("PUT", "/api/items/:id", id, body, NoQuery)
           v == ValidateRequiredFields(Required(body))
           set ==
             [name        |-> body["name"],
              price       |-> body["price"],
              category    |-> body["category"],
              description |-> Coalesce(body["description"], Str(""))]
       IN
       IF ValidateId(id).sent = 1 THEN Answer(r, ValidateId(id))
       ELSE IF v.sent = 1 THEN Answer(r, v)
       ELSE Update(r, id, set, "Item fully updated")

\* PATCH /api/items/:id
PatchItem ==
  /\ Idle /\ listening
  /\ \E id \in RawIds, body \in PatchBodies :
       LET r == Request("PATCH", "/api/items/:id", id, body, NoQuery)
           v == ValidatePatchFields(body)
           \* patchData.updatedAt = new Date(); { $set: patchData }
           patchData == [k \in ObjectKeys(body) |-> body[k]]
       IN
       IF ValidateId(id).sent = 1 THEN Answer(r, ValidateId(id))
       ELSE IF v.sent = 1 THEN Answer(r, v)
       ELSE Update(r, id, patchData, "Item partially updated")

\* DELETE /api/items/:id
DeleteItem ==
  /\ Idle /\ listening
  /\ \E id \in RawIds :
       LET r == Request("DELETE", "/api/items/:id", id, EmptyBody, NoQuery) IN
       IF ValidateId(id).sent = 1 THEN Answer(r, ValidateId(id))
       ELSE \E fails \in BOOLEAN :
         IF ~db \/ NewObjectId(id) = 0
           THEN Caught(r, 0) /\ UNCHANGED now
         ELSE IF fails
           THEN Caught(r, 1) /\ UNCHANGED now
         ELSE LET oid    == NewObjectId(id)
                  result == DeleteOne(items, oid)
              IN
              /\ items' = result.coll
              /\ req' = r
              /\ res' = IF result.deletedCount = 0
                          THEN ErrorRes(404, "Item not found")
                          ELSE [NoRes EXCEPT !.sent = 1, !.status = 204]
              /\ dbCalls' = 1
              /\ UNCHANGED <<nextId, now, before, threw, startVars, legacyVars>>

\* the response has gone out and the server waits for the next request
EndRequest ==
  /\ ~Idle
  /\ req' = NoReq
  /\ res' = NoRes
  /\ dbCalls' = 0
  /\ before' = items
  /\ threw' = FALSE
  /\ UNCHANGED <<itemVars, startVars, legacyVars>>

-----------------------------------------------------------------------------
(* Startup *)

\* startServer(): client.connect() resolved; db is assigned and the server listens
StartServerConnected ==
  /\ startPc = "connecting"
  /\ db' = TRUE
  /\ listening' = TRUE
  /\ startPc' = "listening"
  /\ UNCHANGED <<itemVars, req, res, dbCalls, before, threw, connectPc, legacyVars, variant>>

\* startServer(): client.connect() rejected; the catch block logs and returns
StartServerFailed ==
  /\ startPc = "connecting"
  /\ startPc' = "failed"
  /\ UNCHANGED <<itemVars, req, res, dbCalls, before, threw, db, listening, connectPc, legacyVars, variant>>

-----------------------------------------------------------------------------
(* app.js *)

Init ==
  /\ items = {}
  /\ nextId = 0
  /\ now = 0
  /\ req = NoReq
  /\ res = NoRes
  /\ dbCalls = 0
  /\ before = {}
  /\ threw = FALSE
  /\ db = FALSE
  /\ listening = FALSE
  /\ startPc = "connecting"
  /\ connectPc = "none"
  /\ products = {}
  /\ prodNextId = 0
  /\ variant = "app.js"

Next ==
  \/ StartServerConnected
  \/ StartServerFailed
  \/ GetItems
  \/ GetItem
  \/ PostItem
  \/ PutItem
  \/ PatchItem
  \/ DeleteItem
  \/ EndRequest

Spec == Init /\ [][Next]_vars

-----------------------------------------------------------------------------
(* Legacy products API: part_000 and part_001 *)

LegacyBodies ==
  [name : {Undef, Str("Widget")},
   price : {Undef, Num(0), Num(5), Num(10), Num(20), Str("9.99")},
   category : {Str("tools"), Str("toys")},
   description : {Undef}, stock : {Undef}]

LegacyQueries ==
  [category : {"", "tools"}, minPrice : {"", "10", "abc"},
   sort : {"", "price", "name"}, fields : {"", "name,price"}]

ProductOids == 1 .. MaxProducts
LegacyRawIds == {ToHexString(n) : n \in ProductOids} \cup MalformedIds

\* Number(s) of a query parameter
ToNumber(s) == IF s = "10" THEN Num(10) ELSE NaN

\* s.split(",")
Split(s) == IF s = "name,price" THEN << "name", "price" >> ELSE << s >>

Range(seq) == {seq[i] : i \in 1 .. Len(seq)}

\* the filter object built from req.query
BuildFilter(q) ==
  [category |-> IF q.category # "" THEN Str(q.category) ELSE Undef,
   price    |-> IF q.minPrice # "" THEN ToNumber(q.minPrice) ELSE Undef]

\* the projection object built from req.query: {} or { _id: 0, <field>: 1, ... }
BuildProjection(q) ==
  IF q.fields # ""
    THEN [k \in {"_id"} \cup Range(Split(q.fields)) |->
            IF k \in Range(Split(q.fields)) THEN 1 ELSE 0]
    ELSE [k \in {} |-> 0]

\* whether document d matches { category, price: { $gte } }
Matches(d, filter) ==
  /\ filter.category = Undef \/ d["category"] = filter.category
  /\ filter.price = Undef \/ NumGte(d["price"], filter.price)

\* document d under a projection
Project(d, projection) ==
  IF DOMAIN projection = {} THEN d
  ELSE [k \in {f \in DOMAIN d : f \in DOMAIN projection /\ projection[f] = 1} |-> d[k]]

\* the store's sort order on a field's values: numbers before strings
SortLe(a, b) ==
  IF TypeOf(a) = "number" /\ TypeOf(b) = "number" THEN NumGte(b, a)
  ELSE IF TypeOf(a) = "number" THEN TRUE
  ELSE IF TypeOf(b) = "number" THEN FALSE
  ELSE a = b

\* the orders in which the documents of a set may come back
Orders(coll, byPrice) ==
  IF byPrice
    THEN {s \in [1 .. Cardinality(coll) -> coll] :
            /\ \A i, j \in DOMAIN s : i # j => s[i] # s[j]
            /\ \A i, j \in DOMAIN s : i < j => SortLe(s[i]["price"], s[j]["price"])}
    ELSE {InIdOrder(coll)}

\* collection.find(filter, { projection }).sort(sortOption).toArray()
Find(coll, filter, byPrice, projection) ==
  {[i \in DOMAIN s |-> Project(s[i], projection)] :
     s \in Orders({d \in coll : Matches(d, filter)}, byPrice)}

\* an async handler without try/catch whose persistence call throws: the
\* rejection is unhandled (Express 4: nothing is sent) or reaches the
\* framework's default error handler (Express 5: its own 500 page)
Uncaught(r, issued) ==
  /\ req' = r
  /\ \E framework \in {"express4", "express5"} :
       res' = IF framework = "express4" THEN NoRes
              ELSE ErrorRes(500, "<pre>Error: ...stack...</pre>")
  /\ dbCalls' = issued
  /\ threw' = TRUE
  /\ UNCHANGED <<itemVars, before, startVars, legacyVars>>

\* GET /api/products
ListProducts ==
  /\ Idle /\ listening
  /\ \E q \in LegacyQueries, fails \in BOOLEAN :
       LET r == Request("GET", "/api/products", "", EmptyBody, q) IN
       IF ~db \/ fails THEN Uncaught(r, IF db THEN 1 ELSE 0)
       ELSE \E found \in Find(products, BuildFilter(q), q.sort = "price", BuildProjection(q)) :
         /\ req' = r
         /\ res' = [NoRes EXCEPT !.sent = 1, !.status = 200,
                                 !.count = Len(found),
                                 !.docs = [i \in 1 .. Len(found) |-> DocJSON(found[i])]]
         /\ dbCalls' = 1
         /\ UNCHANGED <<itemVars, before, threw, startVars, legacyVars>>

\* GET /api/products/:id
GetProduct ==
  /\ Idle /\ listening
  /\ \E id \in LegacyRawIds, fails \in BOOLEAN :
       LET r == Request("GET", "/api/products/:id", id, EmptyBody, NoQuery) IN
       IF ~ObjectIdIsValid(id)
         THEN /\ req' = r
              /\ res' = ErrorRes(400, "Invalid product id")
              /\ dbCalls' = 0
              /\ UNCHANGED <<itemVars, before, threw, startVars, legacyVars>>
       ELSE IF ~db \/ fails THEN Uncaught(r, IF db THEN 1 ELSE 0)
       ELSE LET product == FindOne(products, NewObjectId(id)) IN
            /\ req' = r
            /\ res' = IF product = NoDoc
                        THEN ErrorRes(404, "Product not found")
                        ELSE [NoRes EXCEPT !.sent = 1, !.status = 200,
                                           !.docs = << DocJSON(product) >>]
            /\ dbCalls' = 1
            /\ UNCHANGED <<itemVars, before, threw, startVars, legacyVars>>

\* POST /api/products
PostProduct ==
  /\ Idle /\ listening
  /\ prodNextId < MaxProducts
  /\ \E body \in LegacyBodies, fails \in BOOLEAN :
       LET r == Request("POST", "/api/products", "", body, NoQuery) IN
       IF Falsy(body["name"]) \/ Falsy(body["price"]) \/ Falsy(body["category"])
         THEN /\ req' = r
              /\ res' = ErrorRes(400, "Missing required fields")
              /\ dbCalls' = 0
              /\ UNCHANGED <<itemVars, before, threw, startVars, legacyVars>>
       ELSE IF ~db \/ fails THEN Uncaught(r, IF db THEN 1 ELSE 0)
       ELSE LET oid == prodNextId + 1
                doc == [name |-> body["name"], price |-> body["price"],
                        category |-> body["category"]]
            IN
            /\ products' = InsertOne(products, doc, oid)
            /\ prodNextId' = oid
            /\ req' = r
            /\ res' = [NoRes EXCEPT !.sent = 1, !.status = 201,
                                    !.message = "Product created",
                                    !.id = ToJSON(Str(ToHexString(oid)))]
            /\ dbCalls' = 1
            /\ UNCHANGED <<itemVars, before, threw, startVars>>

\* connectDB(): client.connect() resolved; db is assigned
ConnectDBConnected ==
  /\ connectPc = "connecting"
  /\ db' = TRUE
  /\ connectPc' = "connected"
  /\ UNCHANGED <<itemVars, req, res, dbCalls, before, threw, listening, startPc, legacyVars, variant>>

\* connectDB(): client.connect() rejected; the catch block logs and returns
ConnectDBFailed ==
  /\ connectPc = "connecting"
  /\ connectPc' = "failed"
  /\ UNCHANGED <<itemVars, req, res, dbCalls, before, threw, db, listening, startPc, legacyVars, variant>>

\* part_000 calls connectDB() and startServer(); part_001 calls connectDB() and
\* then app.listen() while the module loads
InitLegacy ==
  /\ items = {}
  /\ nextId = 0
  /\ now = 0
  /\ req = NoReq
  /\ res = NoRes
  /\ dbCalls = 0
  /\ before = {}
  /\ threw = FALSE
  /\ db = FALSE
  /\ variant \in {"part_000", "part_001"}
  /\ listening = (variant = "part_001")
  /\ startPc = IF variant = "part_000" THEN "connecting" ELSE "none"
  /\ connectPc = "connecting"
  /\ products = {}
  /\ prodNextId = 0

NextLegacy ==
  \/ ConnectDBConnected
  \/ ConnectDBFailed
  \/ StartServerConnected
  \/ StartServerFailed
  \/ ListProducts
  \/ GetProduct
  \/ PostProduct
  \/ EndRequest

SpecLegacy == InitLegacy /\ [][NextLegacy]_vars

-----------------------------------------------------------------------------
(* Properties *)

OnItems     == req.path = "/api/items"
OnItem      == req.path = "/api/items/:id"
WellFormed  == ObjectIdIsValid(req.id)
Target      == NewObjectId(req.id)
Replied(st) == res.sent = 1 /\ res.status = st
Untouched   == items = before

RequiredKeys == {"name", "price", "category"}
Omitted(b)   == {f \in RequiredKeys : b[f] \in {Undef, Null, Str("")}}

IsText(v)      == v.kind = "string"
IsFilled(v)    == v.kind = "string" /\ v.str # ""
IsFiniteNonNegative(v) == v.kind = "number" /\ v.num >= 0
BadPrice(v) ==
  /\ v # Undef
  /\ \/ v.kind \notin {"number", "Infinity", "NaN"}
     \/ v.kind = "NaN"
     \/ v.kind = "number" /\ v.num < 0

\* the fields other than price are acceptable to a create or a replace
RestValidFull(b) ==
  /\ IsFilled(b["name"]) /\ IsFilled(b["category"])
  /\ b["description"] = Undef \/ IsText(b["description"])

\* the fields other than price are acceptable to a partial update
RestValidPatch(b) ==
  /\ b["name"] = Undef \/ IsText(b["name"])
  /\ b["category"] = Undef \/ IsText(b["category"])
  /\ b["description"] = Undef \/ IsText(b["description"])
  /\ b["stock"] = Undef

UnknownKeys(b) == {k \in Keys : b[k] # Undef /\ k \notin {"name", "price", "category", "description"}}

\* C1: a GET, PUT, PATCH or DELETE on /api/items/:id with a malformed id is
\* answered 400, issues no persistence call and leaves the collection as it
\* was, whatever the body holds.
C1_MalformedIdRejected ==
  (OnItem /\ ~WellFormed) =>
    /\ Replied(400)
    /\ dbCalls = 0
    /\ Untouched

\* C1 happens: a PUT with a complete, valid body and a malformed id was refused
\* while the collection held an item.
C1_Witness ==
  /\ OnItem /\ req.method = "PUT" /\ ~WellFormed
  /\ Omitted(req.body) = {} /\ RestValidFull(req.body) /\ req.body["price"] = Num(0)
  /\ before # {}
  /\ Replied(400)

\* C2: every stored item has a non-empty string name, a non-empty string
\* category and a finite price >= 0.
C2_StoredItemsValid ==
  \A d \in items :
    /\ IsFilled(d["name"])
    /\ IsFilled(d["category"])
    /\ IsFiniteNonNegative(d["price"])

\* C3: a POST, or a PUT with a well-formed id, whose body omits (absent, null
\* or "") at least one of name, price, category is answered 400 with `missing`
\* listing exactly the omitted keys, and writes nothing.
C3_MissingFieldsListed ==
  ( /\ \/ OnItems /\ req.method = "POST"
       \/ OnItem /\ req.method = "PUT" /\ WellFormed
    /\ Omitted(req.body) # {} ) =>
    /\ Replied(400)
    /\ Range(res.missing) = Omitted(req.body)
    /\ Len(res.missing) = Cardinality(Omitted(req.body))
    /\ dbCalls = 0
    /\ Untouched

\* C3 happens: a PUT on an existing item omitted price (null) and category
\* (absent) but not name, and was told so.
C3_Witness ==
  /\ OnItem /\ req.method = "PUT" /\ WellFormed
  /\ FindOne(before, Target) # NoDoc
  /\ req.body["name"] = Str("Widget")
  /\ req.body["price"] = Null /\ req.body["category"] = Undef
  /\ res.missing = << "price", "category" >>

\* C4: a create, a replace and a partial update (well-formed id) carrying a
\* price that is negative, non-numeric or NaN, all other fields being valid,
\* are answered 400 and leave the store unchanged.
C4_BadPriceRejected ==
  ( /\ BadPrice(req.body["price"])
    /\ \/ OnItems /\ req.method = "POST" /\ RestValidFull(req.body)
       \/ OnItem /\ req.method = "PUT" /\ WellFormed /\ RestValidFull(req.body)
       \/ OnItem /\ req.method = "PATCH" /\ WellFormed /\ RestValidPatch(req.body) ) =>
    /\ Replied(400)
    /\ dbCalls = 0
    /\ Untouched

\* C4 happens: a PATCH of { price: -1 } on an existing item was refused.
C4_Witness ==
  /\ OnItem /\ req.method = "PATCH" /\ WellFormed
  /\ FindOne(before, Target) # NoDoc
  /\ ObjectKeys(req.body) = {"price"} /\ req.body["price"] = Num(-1)
  /\ Replied(400)

\* C5: after a valid create, fetching the returned id at once yields a
\* document with createdAt = updatedAt, the submitted name, price and category,
\* and the submitted description or "" when none was submitted.
C5_CreateThenFetch ==
  (OnItems /\ req.method = "POST" /\ Replied(201)) =>
    LET got == GetItemResponse(items, NewObjectId(res.id.str)) IN
    /\ got.status = 200
    /\ LET doc == got.docs[1] IN
       /\ doc["createdAt"] = doc["updatedAt"]
       /\ doc["name"] = req.body["name"]
       /\ doc["price"] = req.body["price"]
       /\ doc["category"] = req.body["category"]
       /\ doc["description"] = IF req.body["description"] \in {Undef, Null}
                                 THEN Str("") ELSE req.body["description"]

\* C6 as stated: any PATCH whose body has a key outside {name, price,
\* category, description} is answered 400 with `invalid` listing exactly those
\* keys and leaves the document unchanged; an accepted PATCH changes only the
\* keys of its body and updatedAt.
C6_Original ==
  /\ (OnItem /\ req.method = "PATCH" /\ UnknownKeys(req.body) # {}) =>
       /\ Replied(400)
       /\ Range(res.invalid) = UnknownKeys(req.body)
       /\ Untouched
  /\ (OnItem /\ req.method = "PATCH" /\ Replied(200)) =>
       LET old == FindOne(before, Target)
           new == FindOne(items, Target)
       IN
       /\ old # NoDoc /\ new # NoDoc
       /\ items \ {new} = before \ {old}
       /\ \A k \in DOMAIN old \ (ObjectKeys(req.body) \cup {"updatedAt"}) :
            k \in DOMAIN new /\ new[k] = old[k]

\* C6 amended: the same, for a PATCH with a well-formed id (a malformed id is
\* answered 400 "Invalid item id" before the body is looked at).
C6_PatchFrame ==
  /\ (OnItem /\ req.method = "PATCH" /\ WellFormed /\ UnknownKeys(req.body) # {}) =>
       /\ Replied(400)
       /\ Range(res.invalid) = UnknownKeys(req.body)
       /\ Len(res.invalid) = Cardinality(UnknownKeys(req.body))
       /\ dbCalls = 0
       /\ Untouched
  /\ (OnItem /\ req.method = "PATCH" /\ Replied(200)) =>
       LET old == FindOne(before, Target)
           new == FindOne(items, Target)
       IN
       /\ old # NoDoc /\ new # NoDoc
       /\ items \ {new} = before \ {old}
       /\ \A k \in DOMAIN old \ (ObjectKeys(req.body) \cup {"updatedAt"}) :
            k \in DOMAIN new /\ new[k] = old[k]

\* C6 happens: an accepted PATCH of { price } alone moved updatedAt past
\* createdAt on an item that has a description.
C6_Witness ==
  /\ OnItem /\ req.method = "PATCH" /\ Replied(200)
  /\ ObjectKeys(req.body) = {"price"}
  /\ LET old == FindOne(before, Target)
         new == FindOne(items, Target)
     IN
     /\ old # NoDoc /\ new # NoDoc
     /\ old["description"] = Str("handy")
     /\ new["price"] # old["price"]
     /\ new["updatedAt"] # old["updatedAt"]
     /\ new["updatedAt"] # new["createdAt"]

\* C7 as stated: for a well-formed id with no document, GET, PUT, PATCH and
\* DELETE each answer 404 and leave the store unchanged (the persistence call
\* not throwing); a DELETE answered 204 has removed the item, so the next one
\* is answered 404.
C7_Original ==
  /\ (OnItem /\ WellFormed /\ FindOne(before, Target) = NoDoc /\ ~threw) =>
       /\ Replied(404)
       /\ Untouched
  /\ (OnItem /\ req.method = "DELETE" /\ Replied(204)) =>
       /\ FindOne(before, Target) # NoDoc
       /\ FindOne(items, Target) = NoDoc

\* the body of req passes the validation its handler runs before the store
BodyAccepted ==
  CASE req.method = "PUT"   -> Omitted(req.body) = {} /\ RestValidFull(Required(req.body))
                               /\ ~BadPrice(req.body["price"])
    [] req.method = "PATCH" -> /\ ObjectKeys(req.body) # {}
                               /\ RestValidPatch(req.body)
                               /\ ~BadPrice(req.body["price"])
    [] OTHER                -> TRUE

\* C7 amended: for a well-formed id with no document, GET and DELETE answer
\* 404, PUT and PATCH answer 404 when the body passes validation (400
\* otherwise), unless the persistence call throws (500); in none of these
\* cases does the store change. A DELETE answered 204 has removed the item,
\* so the next one is answered 404.
C7_NotFound ==
  /\ (OnItem /\ WellFormed /\ FindOne(before, Target) = NoDoc) =>
       /\ Untouched
       /\ res.sent = 1
       /\ res.status = IF threw THEN 500 ELSE IF BodyAccepted THEN 404 ELSE 400
  /\ (OnItem /\ req.method = "DELETE" /\ Replied(204)) =>
       /\ FindOne(before, Target) # NoDoc
       /\ FindOne(items, Target) = NoDoc

\* C7 happens: a DELETE of an id that was created and has been deleted was
\* answered 404.
C7_Witness ==
  /\ OnItem /\ req.method = "DELETE" /\ WellFormed
  /\ Target <= nextId
  /\ FindOne(before, Target) = NoDoc
  /\ Replied(404)

\* the documents a list with category=tools&minPrice=10 is to return
Wanted(coll) ==
  {d \in coll : d["category"] = Str("tools") /\ NumGte(d["price"], Num(10))}

\* C8: a list with category=tools&minPrice=10&sort=price&fields=name,price, on
\* /api/items and on /api/products, returns exactly the stored documents of
\* that category with price >= 10, ascending by price, each holding name and
\* price only, and count is their number (the persistence call not throwing).
C8_FilteredList ==
  (req.method = "GET" /\ req.path \in {"/api/items", "/api/products"}
     /\ req.query = ListQuery /\ ~threw) =>
    LET coll == IF OnItems THEN before ELSE products IN
    /\ res.status = 200
    /\ res.count = Len(res.docs)
    /\ Len(res.docs) = Cardinality(Wanted(coll))
    /\ \A d \in Wanted(coll) :
         \E i \in DOMAIN res.docs :
           res.docs[i] = DocJSON([k \in {"name", "price"} |-> d[k]])
    /\ \A i \in DOMAIN res.docs : DOMAIN res.docs[i] = {"name", "price"}
    /\ \A i, j \in DOMAIN res.docs :
         i < j => SortLe(res.docs[i]["price"], res.docs[j]["price"])

\* every connect the program attempted has been rejected
Disconnected == ~db /\ startPc # "connecting" /\ connectPc # "connecting"

\* C9: no handler starts while db is unset, and a server whose connect failed
\* is not listening.
C9_ConnectedBeforeTraffic ==
  [][ /\ (req = NoReq /\ req' # NoReq) => db
      /\ Disconnected' => ~listening' ]_vars

\* C10: when the persistence call of a resource handler throws, exactly one
\* response is sent: 500 { error: "Internal server error" }.
C10_ThrowsAnswered500 ==
  (threw /\ dbCalls = 1) => res = [NoRes EXCEPT !.sent = 1, !.status = 500,
                               !.error = "Internal server error"]

====
